---- MODULE Spec2Model ----
(***************************************************************************)
(* OpsAgent inventory reorder advisor: the reorder heuristics              *)
(* (app/heuristics.py), the feature builder (app/data_utils.py), the       *)
(* batch recommendation run (scripts/run_reorder.py) and the backtest      *)
(* simulator (app/backtest.py).                                            *)
(*                                                                         *)
(* Numbers.  The program computes in Python floats.  The model computes    *)
(* in exact arithmetic: a float is a normalised fraction [n, d] (d > 0),   *)
(* and a non-negative float that the program obtains through a square     *)
(* root (a standard deviation, math.sqrt(lead_time_days)) is carried as    *)
(* its square, so that every comparison the program makes is decided       *)
(* exactly.  Floating-point rounding error is not modelled.                *)
(***************************************************************************)
EXTENDS Integers, Sequences, FiniteSets, TLC

VARIABLES
    pc,          \* position of the running call or script
    call,        \* name and arguments of the function being called
    result,      \* its return value (None until it returns)
    env,         \* what the environment answered during the call: the clock, the
                 \* text-generation capability
    sales,       \* sales_df: sequence of records (date, sku, qty_sold)
    sku_list,    \* aggregate_daily's sku_list argument (an optional value)
    suppliers,   \* suppliers_df: sku -> supplier row
    daily,       \* the daily grid: sequence of rows (date, sku, qty_sold)
    features,    \* the feature rows
    recs,        \* list of recommendations produced so far
    cur_date,    \* run_backtest: the simulated day
    inventory,   \* run_backtest: sku -> units on hand
    outstanding, \* run_backtest: orders placed and not yet received
    history      \* run_backtest: the history rows appended so far

\* the local state of run_backtest
btvars == <<cur_date, inventory, outstanding, history>>

vars == <<pc, call, result, env, sales, sku_list, suppliers, daily, features, recs,
          btvars>>

\* an optional value: None is the empty tuple, a present value v is <<v>>
None == <<>>

Some(v) == <<v>>

(***************************************************************************)
(* Exact arithmetic standing for Python float arithmetic.                  *)
(***************************************************************************)
Abs(x) == IF x < 0 THEN -x ELSE x

Max(a, b) == IF a >= b THEN a ELSE b

Min(a, b) == IF a <= b THEN a ELSE b

RECURSIVE Gcd(_, _)
Gcd(a, b) == IF b = 0 THEN a ELSE Gcd(b, a % b)

\* the fraction n/d, normalised (d > 0 required)
Rat(n, d) ==
    LET g == Gcd(Abs(n), d)
    IN  IF n = 0 THEN [n |-> 0, d |-> 1] ELSE [n |-> n \div g, d |-> d \div g]

IntR(i) == [n |-> i, d |-> 1]

Zero == IntR(0)

RAdd(x, y) == Rat(x.n * y.d + y.n * x.d, x.d * y.d)

RSub(x, y) == Rat(x.n * y.d - y.n * x.d, x.d * y.d)

RMul(x, y) == Rat(x.n * y.n, x.d * y.d)

\* x / y for y # 0
RDiv(x, y) == IF y.n > 0 THEN Rat(x.n * y.d, x.d * y.n) ELSE Rat(-(x.n * y.d), x.d * (-y.n))

RLt(x, y) == x.n * y.d < y.n * x.d

RLe(x, y) == x.n * y.d <= y.n * x.d

RMax(x, y) == IF RLt(x, y) THEN y ELSE x

RMin(x, y) == IF RLt(y, x) THEN y ELSE x

\* math.ceil and the truncation of a non-negative float by int()
Ceil(x) == -((-x.n) \div x.d)

Floor(x) == x.n \div x.d

(***************************************************************************)
(* app/heuristics.py                                                       *)
(***************************************************************************)

\* mutant: the raw need is rounded down to a multiple of pack_size
recommended_qty_round_down(current_stock, target_stock, min_order_qty, pack_size) ==
    LET qty == RMax(Zero, RSub(target_stock, current_stock))
        qty_rounded == IF pack_size <= 1
                       THEN Floor(qty)
                       ELSE Floor(RDiv(qty, IntR(pack_size))) * pack_size
    IN  IF qty_rounded = 0 THEN 0 ELSE Max(min_order_qty, qty_rounded)

\* mutant: min_order_qty is applied to a zero order too
recommended_qty_forced_minimum(current_stock, target_stock, min_order_qty, pack_size) ==
    LET qty == RMax(Zero, RSub(target_stock, current_stock))
        qty_rounded == IF pack_size <= 1
                       THEN Ceil(qty)
                       ELSE Ceil(RDiv(qty, IntR(pack_size))) * pack_size
    IN  Max(min_order_qty, qty_rounded)

recommended_qty_up_to_target(current_stock, target_stock, min_order_qty, pack_size) ==
    LET qty == RMax(Zero, RSub(target_stock, current_stock))
        qty_rounded == IF pack_size <= 1
                       THEN Ceil(qty)
                       ELSE Ceil(RDiv(qty, IntR(pack_size))) * pack_size
    IN  IF qty_rounded = 0 THEN 0 ELSE Max(min_order_qty, qty_rounded)

(***************************************************************************)
(* A non-negative float obtained through a square root is the record       *)
(* [sq |-> q], standing for sqrt(q).  A reorder point is [r |-> a,         *)
(* sq |-> q], standing for a + sqrt(q).                                    *)
(***************************************************************************)
Surd(q) == [sq |-> q]

(***************************************************************************)
(* Products of naturals beyond the range of the checker's integers: a      *)
(* natural is the sequence of its digits in base Base, lowest first.       *)
(***************************************************************************)
Base == 10000

MaxInt == 2147483647

RECURSIVE Digits(_)
Digits(n) == IF n = 0 THEN <<>> ELSE <<n % Base>> \o Digits(n \div Base)

RECURSIVE DigitsAdd(_, _, _)
DigitsAdd(a, b, carry) ==
    IF a = <<>> /\ b = <<>> THEN (IF carry = 0 THEN <<>> ELSE <<carry>>)
    ELSE LET x == IF a = <<>> THEN 0 ELSE Head(a)
             y == IF b = <<>> THEN 0 ELSE Head(b)
             t == x + y + carry
         IN  <<t % Base>> \o DigitsAdd(IF a = <<>> THEN a ELSE Tail(a),
                                       IF b = <<>> THEN b ELSE Tail(b), t \div Base)

\* a times the single digit d
RECURSIVE DigitsScale(_, _, _)
DigitsScale(a, d, carry) ==
    IF a = <<>> THEN (IF carry = 0 THEN <<>> ELSE <<carry>>)
    ELSE LET t == Head(a) * d + carry
         IN  <<t % Base>> \o DigitsScale(Tail(a), d, t \div Base)

RECURSIVE DigitsMul(_, _)
DigitsMul(a, b) ==
    IF a = <<>> \/ b = <<>> THEN <<>>
    ELSE DigitsAdd(DigitsScale(a, Head(b), 0), <<0>> \o DigitsMul(a, Tail(b)), 0)

\* without the zero digits at the high end
RECURSIVE DigitsTrim(_)
DigitsTrim(a) ==
    IF a # <<>> /\ a[Len(a)] = 0 THEN DigitsTrim(SubSeq(a, 1, Len(a) - 1)) ELSE a

\* a < b, for trimmed a and b
RECURSIVE DigitsLess(_, _)
DigitsLess(a, b) ==
    IF Len(a) # Len(b) THEN Len(a) < Len(b)
    ELSE IF a = <<>> THEN FALSE
    ELSE IF a[Len(a)] # b[Len(b)] THEN a[Len(a)] < b[Len(b)]
    ELSE DigitsLess(SubSeq(a, 1, Len(a) - 1), SubSeq(b, 1, Len(b) - 1))

\* the product of three naturals fits the checker's integers
Fits(a, b, c) ==
    \/ a = 0 \/ b = 0 \/ c = 0
    \/ (a <= MaxInt \div b /\ a * b <= MaxInt \div c)

Product(a, b, c) == DigitsTrim(DigitsMul(DigitsMul(Digits(a), Digits(b)), Digits(c)))

\* a1 * a2 * a3 < b1 * b2 * b3 for naturals
ProductLess(a1, a2, a3, b1, b2, b3) ==
    IF Fits(a1, a2, a3) /\ Fits(b1, b2, b3)
    THEN a1 * a2 * a3 < b1 * b2 * b3
    ELSE DigitsLess(Product(a1, a2, a3), Product(b1, b2, b3))

\* x < sqrt(q)
SurdGt(q, x) == RLt(x, Zero) \/ ProductLess(x.n, x.n, q.d, q.n, x.d, x.d)

\* x <= sqrt(q)
SurdGe(q, x) == RLe(x, Zero) \/ ~ProductLess(q.n, x.d, x.d, x.n, x.n, q.d)

\* mutant: the lead time is taken by its size, whatever its sign
safety_stock_abs(sigma, lead_time_days, z) ==
    Surd(RMul(RMul(RMul(z, z), sigma.sq), IntR(Abs(lead_time_days))))

\* mutant: the lead time enters without its square root
safety_stock_linear(sigma, lead_time_days, z) ==
    IF lead_time_days <= 0
    THEN Surd(Zero)
    ELSE Surd(RMul(RMul(RMul(z, z), sigma.sq), IntR(lead_time_days * lead_time_days)))

safety_stock(sigma, lead_time_days, z) ==
    IF lead_time_days <= 0
    THEN Surd(Zero)
    ELSE Surd(RMul(RMul(RMul(z, z), sigma.sq), IntR(lead_time_days)))

\* mutant: the lead time multiplies the safety stock instead of the demand
reorder_point_swapped(avg_daily, safety, lead_time_days) ==
    [r |-> avg_daily,
     sq |-> RMul(safety.sq, IntR(lead_time_days * lead_time_days))]

reorder_point(avg_daily, safety, lead_time_days) ==
    [r |-> RMul(avg_daily, IntR(lead_time_days)), sq |-> safety.sq]

\* current_stock < rop
BelowReorderPoint(current_stock, rop) == SurdGt(rop.sq, RSub(current_stock, rop.r))

days_of_cover(current_stock, avg_daily) ==
    IF RLe(avg_daily, Zero) THEN None ELSE Some(RDiv(current_stock, avg_daily))

\* a datetime: calendar day and the fraction of the day elapsed
DateTime(day, tod) == [day |-> day, tod |-> tod]

\* mutant: the missing demand signal is looked at before the reorder point
ReorderByCoverFirst(as_of, avg_daily, lead_time_days, current_stock, rop) ==
    IF days_of_cover(current_stock, avg_daily) = None
    THEN [date |-> None, reason |-> "no_demand"]
    ELSE IF BelowReorderPoint(current_stock, rop)
    THEN [date |-> Some(as_of.day), reason |-> "current_stock_below_reorder_point"]
    ELSE [date |-> Some(as_of.day), reason |-> "within_lead_time"]

\* mutant: the scheduled date is rounded to the nearest whole day
ReorderByNearest(as_of, avg_daily, lead_time_days, current_stock, rop) ==
    IF BelowReorderPoint(current_stock, rop)
    THEN [date |-> Some(as_of.day), reason |-> "current_stock_below_reorder_point"]
    ELSE IF days_of_cover(current_stock, avg_daily) = None
    THEN [date |-> None, reason |-> "no_demand"]
    ELSE
      LET cover == days_of_cover(current_stock, avg_daily)[1]
          x == RSub(RSub(cover, RDiv(rop.r, avg_daily)), IntR(lead_time_days))
          half == RAdd(as_of.tod, Rat(1, 2))
          AtLeast(shift, k) ==
              ~SurdGt(rop.sq, RMul(avg_daily, RSub(RAdd(x, shift), IntR(k))))
          within == SurdGe(rop.sq, RMul(avg_daily, x))
          top == Max(0, Floor(RAdd(x, half)))
          RECURSIVE Largest(_, _)
          Largest(lo, hi) ==
              IF lo >= hi THEN lo
              ELSE LET mid == (lo + hi + 1) \div 2
                   IN  IF AtLeast(half, mid)
                       THEN Largest(mid, hi) ELSE Largest(lo, mid - 1)
      IN  IF within
          THEN [date |-> Some(as_of.day), reason |-> "within_lead_time"]
          ELSE [date |-> Some(as_of.day + Largest(0, top)), reason |-> "scheduled"]

\* mutant: latest_order_in_days is added to as_of_date whatever its sign
ReorderByNoGuard(as_of, avg_daily, lead_time_days, current_stock, rop) ==
    IF BelowReorderPoint(current_stock, rop)
    THEN [date |-> Some(as_of.day), reason |-> "current_stock_below_reorder_point"]
    ELSE IF days_of_cover(current_stock, avg_daily) = None
    THEN [date |-> None, reason |-> "no_demand"]
    ELSE
      LET cover == days_of_cover(current_stock, avg_daily)[1]
          x == RSub(RSub(cover, RDiv(rop.r, avg_daily)), IntR(lead_time_days))
          AtLeast(shift, k) ==
              ~SurdGt(rop.sq, RMul(avg_daily, RSub(RAdd(x, shift), IntR(k))))
          bottom == -Max(0, lead_time_days)
          top == Max(bottom, Floor(RAdd(x, as_of.tod)))
          RECURSIVE Largest(_, _)
          Largest(lo, hi) ==
              IF lo >= hi THEN lo
              ELSE LET mid == lo + ((hi - lo + 1) \div 2)
                   IN  IF AtLeast(as_of.tod, mid)
                       THEN Largest(mid, hi) ELSE Largest(lo, mid - 1)
      IN  [date |-> Some(as_of.day + Largest(bottom, top)), reason |-> "scheduled"]

\* lines 83-100: the date to reorder by and the reason for it
ReorderBy(as_of, avg_daily, lead_time_days, current_stock, rop) ==
    IF BelowReorderPoint(current_stock, rop)
    THEN [date |-> Some(as_of.day), reason |-> "current_stock_below_reorder_point"]
    ELSE IF days_of_cover(current_stock, avg_daily) = None
    THEN [date |-> None, reason |-> "no_demand"]
    ELSE
      LET \* latest_order_in_days = max(0, cover - rop / avg_daily) - lead_time_days,
          \* which is x - sqrt(rop.sq) / avg_daily when it is positive
          cover == days_of_cover(current_stock, avg_daily)[1]
          x == RSub(RSub(cover, RDiv(rop.r, avg_daily)), IntR(lead_time_days))
          \* latest_order_in_days + shift >= k
          AtLeast(shift, k) ==
              ~SurdGt(rop.sq, RMul(avg_daily, RSub(RAdd(x, shift), IntR(k))))
          \* latest_order_in_days <= 0
          within == SurdGe(rop.sq, RMul(avg_daily, x))
          top == Max(0, Floor(RAdd(x, as_of.tod)))
          \* the largest k in lo..hi with latest_order_in_days + tod >= k
          RECURSIVE Largest(_, _)
          Largest(lo, hi) ==
              IF lo >= hi THEN lo
              ELSE LET mid == (lo + hi + 1) \div 2
                   IN  IF AtLeast(as_of.tod, mid)
                       THEN Largest(mid, hi) ELSE Largest(lo, mid - 1)
          \* whole days added by (as_of_date + timedelta(days=...)).date()
          whole == Largest(0, top)
      IN  IF within
          THEN [date |-> Some(as_of.day), reason |-> "within_lead_time"]
          ELSE [date |-> Some(as_of.day + whole), reason |-> "scheduled"]

\* lines 102-105 and 150: round(max(0.0, min(0.99, 0.5 + diff / (rop + 1.0))), 2),
\* for rop >= 0; ties are rounded to the even hundredth
ConfidenceCapped(current_stock, rop, cap) ==
    LET below == BelowReorderPoint(current_stock, rop)
        \* raw_conf >= t, raw_conf > t
        Bound(t) == LET u == RSub(t, Rat(1, 2))
                    IN  RDiv(RSub(RMul(u, RAdd(rop.r, IntR(1))), RSub(rop.r, current_stock)),
                             RSub(IntR(1), u))
        RawGe(t) == IF below THEN SurdGe(rop.sq, Bound(t)) ELSE RLe(t, Rat(1, 2))
        RawGt(t) == IF below THEN SurdGt(rop.sq, Bound(t)) ELSE RLt(t, Rat(1, 2))
        \* min(cap, raw_conf) >= t
        Ge(t) == RLe(t, cap) /\ RawGe(t)
        Gt(t) == RLt(t, cap) /\ RawGt(t)
        \* the largest j in lo..hi with min(cap, raw_conf) >= (j - 1/2) / 100
        RECURSIVE Largest(_, _)
        Largest(lo, hi) ==
            IF lo >= hi THEN lo
            ELSE LET mid == (lo + hi + 1) \div 2
                 IN  IF Ge(Rat(2 * mid - 1, 200))
                     THEN Largest(mid, hi) ELSE Largest(lo, mid - 1)
        k == Largest(50, 100)
        tie == ~Gt(Rat(2 * k - 1, 200))
    IN  IF tie /\ k % 2 = 1 THEN Rat(k - 1, 100) ELSE Rat(k, 100)

\* mutant: the confidence is capped at 1.0
ConfidenceCapOne(current_stock, rop) == ConfidenceCapped(current_stock, rop, IntR(1))

Confidence(current_stock, rop) == ConfidenceCapped(current_stock, rop, Rat(99, 100))

\* a text is a sequence of characters; " " is whitespace
RECURSIVE lstrip(_)
lstrip(t) == IF t # <<>> /\ Head(t) = " " THEN lstrip(Tail(t)) ELSE t

RECURSIVE rstrip(_)
rstrip(t) == IF t # <<>> /\ t[Len(t)] = " " THEN rstrip(SubSeq(t, 1, Len(t) - 1)) ELSE t

strip(t) == rstrip(lstrip(t))

\* the template text, as the sequence of its pieces; the formatted numbers are
\* kept as the numbers they format
default_rationale_template(info) ==
    << "Demand (avg daily) ~", info.avg_daily, "Using lead time", info.lead_time_days,
       "days and demand volatility (sigma) ~", info.sigma, "safety stock ~",
       info.safety_stock, "Reorder point ~", info.reorder_point, "Current stock is",
       info.current_stock, "so recommended order is", info.recommended_qty,
       "units to top up to target", info.target_stock >>

\* lines 125-139, the body of the try: the value of rationale, or the
\* exception.  llm_callable is a callable; outcome is what calling it does: it
\* raises an Exception ("raises"), returns a value that is no string, on which
\* .strip() raises AttributeError ("returns_no_text"), or returns a text
\* ("returns")
AskCapability(outcome) ==
    IF outcome.kind = "returns"
    THEN [raised |-> FALSE, value |-> Some(strip(outcome.text))]
    ELSE [raised |-> TRUE, value |-> None]

\* mutant: the text returned by the capability is not stripped
RationaleNoStrip(llm_callable, outcome, info) ==
    LET rationale ==
            IF llm_callable = None THEN None
            ELSE IF outcome.kind = "returns" THEN Some(outcome.text)
            ELSE None
    IN  [raised |-> FALSE,
         text |-> IF rationale = None \/ rationale = Some(<<>>)
                  THEN default_rationale_template(info)
                  ELSE rationale[1]]

\* lines 122-144: the rationale, or the exception that leaves the function
Rationale(llm_callable, outcome, info) ==
    LET asked == AskCapability(outcome)
        rationale ==
            IF llm_callable = None THEN None
            ELSE IF asked.raised THEN None      \* except Exception
            ELSE asked.value
    IN  [raised |-> FALSE,
         text |-> IF rationale = None \/ rationale = Some(<<>>)
                  THEN default_rationale_template(info)
                  ELSE rationale[1]]

\* a is the record of the arguments, now is datetime.utcnow(), outcome is what
\* llm_callable does when called.  For avg_daily, sigma, z, lead_time_days >= 0.
compute_recommendation(a, now, outcome) ==
    LET as_of_date == IF a.as_of_date = None THEN now ELSE a.as_of_date[1]
        safety == safety_stock(a.sigma, a.lead_time_days, a.z)
        rop == reorder_point(a.avg_daily, safety, a.lead_time_days)
        rec_qty == recommended_qty_up_to_target(a.current_stock, a.target_stock,
                                                a.min_order_qty, a.pack_size)
        by == ReorderBy(as_of_date, a.avg_daily, a.lead_time_days, a.current_stock, rop)
        confidence == Confidence(a.current_stock, rop)
        info == [sku |-> a.sku, avg_daily |-> a.avg_daily, sigma |-> a.sigma,
                 lead_time_days |-> a.lead_time_days, safety_stock |-> safety,
                 reorder_point |-> rop, current_stock |-> a.current_stock,
                 target_stock |-> a.target_stock, recommended_qty |-> rec_qty,
                 as_of_date |-> as_of_date.day, reorder_reason |-> by.reason,
                 pack_size |-> a.pack_size]
        rationale == Rationale(a.llm_callable, outcome, info)
    IN  [raised |-> rationale.raised,
         value |-> [sku |-> a.sku, recommended_qty |-> rec_qty,
                    reorder_by_date |-> by.date, confidence |-> confidence,
                    rationale |-> rationale.text, debug |-> info]]

(***************************************************************************)
(* app/data_utils.py.  A data frame is the sequence of its rows, a date is *)
(* a day number, and product identifiers are ordered as in SkuOrder.       *)
(***************************************************************************)
SkuOrder == <<"A", "B", "C", "X">>

Range(seq) == {seq[i] : i \in DOMAIN seq}

\* sorted(...) of a set of product identifiers
Sorted(skus) == SelectSeq(SkuOrder, LAMBDA k : k \in skus)

RECURSIVE SetMin(_)
SetMin(S) == LET x == CHOOSE y \in S : TRUE
             IN  IF S = {x} THEN x ELSE Min(x, SetMin(S \ {x}))

RECURSIVE SetMax(_)
SetMax(S) == LET x == CHOOSE y \in S : TRUE
             IN  IF S = {x} THEN x ELSE Max(x, SetMax(S \ {x}))

\* mutant: a repeated (date, sku) record overwrites the earlier ones
RECURSIVE LastQty(_, _, _)
LastQty(rows, date, sku) ==
    IF rows = <<>> THEN 0
    ELSE LET last == rows[Len(rows)]
         IN  IF last.date = date /\ last.sku = sku THEN last.qty_sold
             ELSE LastQty(SubSeq(rows, 1, Len(rows) - 1), date, sku)

\* groupby(["date", "sku"])["qty_sold"].sum() for one (date, sku), 0 when the
\* pair has no record (reindex(fill_value=0))
RECURSIVE SumQty(_, _, _)
SumQty(rows, date, sku) ==
    IF rows = <<>> THEN 0
    ELSE (IF Head(rows).date = date /\ Head(rows).sku = sku THEN Head(rows).qty_sold ELSE 0)
             + SumQty(Tail(rows), date, sku)

\* the grid of lines 54-62 for the products skus (a sequence) over the days
\* min_date .. max_date: one frame per product, each in date order
DailyGrid(sales_df, skus, min_date, max_date) ==
    LET n == max_date - min_date + 1
    IN  [i \in 1..(Len(skus) * n) |->
            LET sku == skus[((i - 1) \div n) + 1]
                date == min_date + ((i - 1) % n)
            IN  [date |-> date, sku |-> sku,
                 qty_sold |-> SumQty(sales_df, date, sku)]]

\* sales_df has the columns date, sku, qty_sold; sku_list_arg is None or a list.
\* pd.date_range raises on an empty frame (min is NaT); pd.concat raises on
\* an empty list of products.
aggregate_daily(sales_df, sku_list_arg) ==
    LET min_date == SetMin({sales_df[i].date : i \in DOMAIN sales_df})
        max_date == SetMax({sales_df[i].date : i \in DOMAIN sales_df})
        skus == IF sku_list_arg # None THEN sku_list_arg[1]
                ELSE Sorted({sales_df[i].sku : i \in DOMAIN sales_df})
    IN  IF sales_df = <<>> \/ skus = <<>>
        THEN [raised |-> TRUE, value |-> <<>>]
        ELSE [raised |-> FALSE, value |-> DailyGrid(sales_df, skus, min_date, max_date)]

\* sort_values("date") of a frame
RECURSIVE SortByDate(_)
SortByDate(rows) ==
    IF rows = <<>> THEN <<>>
    ELSE LET first == SetMin({rows[i].date : i \in DOMAIN rows})
             at == CHOOSE i \in DOMAIN rows :
                       rows[i].date = first /\ \A j \in 1..(i - 1) : rows[j].date # first
         IN  <<rows[at]>> \o SortByDate(SubSeq(rows, 1, at - 1)
                                          \o SubSeq(rows, at + 1, Len(rows)))

RECURSIVE Sum(_, _, _)
Sum(q, lo, hi) == IF lo > hi THEN 0 ELSE q[lo] + Sum(q, lo + 1, hi)

RECURSIVE SumSq(_, _, _)
SumSq(q, lo, hi) == IF lo > hi THEN 0 ELSE q[lo] * q[lo] + SumSq(q, lo + 1, hi)

\* q.rolling(window=w, min_periods=1).mean() at position i
RollingMean(q, w, i) ==
    LET lo == Max(1, i - w + 1)
    IN  Some(Rat(Sum(q, lo, i), i - lo + 1))

\* q.rolling(window=w, min_periods=1).std() at position i: the sample standard
\* deviation, NaN (None) for a single observation
RollingStd(q, w, i) ==
    LET lo == Max(1, i - w + 1)
        n == i - lo + 1
        total == Sum(q, lo, i)
    IN  IF n < 2 THEN None
        ELSE Some(Surd(Rat(n * SumSq(q, lo, i) - total * total, n * (n - 1))))

\* .shift(1): position i takes the value of position i - 1, the first is NaN
Shift(col) == [i \in DOMAIN col |-> IF i = 1 THEN None ELSE col[i - 1]]

\* .fillna(0) with the zero given
FillNa(col, zero) == [i \in DOMAIN col |-> IF col[i] = None THEN zero ELSE col[i][1]]

\* mutant: the rolling columns are not shifted, so a day's features include
\* that day's sales
GroupFeaturesNoShift(g, windows) ==
    LET df == SortByDate(g)
        q == [i \in DOMAIN df |-> df[i].qty_sold]
        roll_mean(w) == FillNa([i \in DOMAIN q |-> RollingMean(q, w, i)], Zero)
        roll_std(w) == FillNa([i \in DOMAIN q |-> RollingStd(q, w, i)], Surd(Zero))
    IN  [i \in DOMAIN df |->
            [date |-> df[i].date, sku |-> df[i].sku, qty_sold |-> df[i].qty_sold,
             roll_mean |-> [w \in Range(windows) |-> roll_mean(w)[i]],
             roll_std |-> [w \in Range(windows) |-> roll_std(w)[i]]]]

\* lines 75-83 for one product: g is the product's frame
GroupFeatures(g, windows) ==
    LET df == SortByDate(g)
        q == [i \in DOMAIN df |-> df[i].qty_sold]
        roll_mean(w) == FillNa(Shift([i \in DOMAIN q |-> RollingMean(q, w, i)]), Zero)
        roll_std(w) == FillNa(Shift([i \in DOMAIN q |-> RollingStd(q, w, i)]), Surd(Zero))
    IN  [i \in DOMAIN df |->
            [date |-> df[i].date, sku |-> df[i].sku, qty_sold |-> df[i].qty_sold,
             roll_mean |-> [w \in Range(windows) |-> roll_mean(w)[i]],
             roll_std |-> [w \in Range(windows) |-> roll_std(w)[i]]]]

RECURSIVE Concat(_)
Concat(frames) == IF frames = <<>> THEN <<>> ELSE Head(frames) \o Concat(Tail(frames))

\* groupby("sku") visits the products in sorted order
compute_rolling_features(daily_df, windows) ==
    LET skus == Sorted({daily_df[i].sku : i \in DOMAIN daily_df})
    IN  Concat([k \in DOMAIN skus |->
                   GroupFeatures(SelectSeq(daily_df, LAMBDA row : row.sku = skus[k]),
                                 windows)])

(***************************************************************************)
(* scripts/run_reorder.py.  suppliers_df is a function from the products   *)
(* that have a supplier row to that row.                                   *)
(***************************************************************************)

\* features.sort_values("date").groupby("sku").tail(1): the last row of every
\* product, in product order
Latest(feature_rows) ==
    LET skus == Sorted({feature_rows[i].sku : i \in DOMAIN feature_rows})
    IN  [k \in DOMAIN skus |->
            LET mine == SortByDate(SelectSeq(feature_rows, LAMBDA row : row.sku = skus[k]))
            IN  mine[Len(mine)]]

\* mutant: the default is taken whether or not the row has the column
RowGetFallback(column, w, default) == default

\* row.get("roll_mean_<w>", default)
RowGet(column, w, default) == IF w \in DOMAIN column THEN column[w] ELSE default

\* lines 76-98 for one row of latest: the recommendation, or the IndexError of
\* suppliers[suppliers["sku"] == sku].iloc[0] for a product without supplier row
MainRecommendation(row, suppliers_df, as_of, llm_callable, outcome) ==
    IF row.sku \notin DOMAIN suppliers_df
    THEN [raised |-> TRUE, value |-> <<>>]
    ELSE
      LET sup == suppliers_df[row.sku]
          avg_daily == RowGet(row.roll_mean, 14,
                              RowGet(row.roll_mean, 7, IntR(row.qty_sold)))
          sigma == RowGet(row.roll_std, 14, RowGet(row.roll_std, 7, Surd(Zero)))
          pack_size == IF sup.pack_size = None THEN 1 ELSE sup.pack_size[1]
      IN  compute_recommendation(
              [sku |-> row.sku, avg_daily |-> avg_daily, sigma |-> sigma,
               lead_time_days |-> sup.lead_time_days,
               current_stock |-> IntR(sup.current_stock),
               target_stock |-> IntR(sup.target_stock),
               as_of_date |-> Some(as_of), z |-> Rat(165, 100), min_order_qty |-> 1,
               llm_callable |-> llm_callable, pack_size |-> pack_size],
              as_of, outcome)

(***************************************************************************)
(* app/backtest.py.  inventory is a dict (a function from the products it  *)
(* holds), an order is a record (sku, arrival, qty), a history row is a    *)
(* record (date, sku, demand, sold, stockout, inventory_end).              *)
(***************************************************************************)

\* _safe_int_from_series on the column value of a supplier row: v is an
\* optional value, None standing for a missing column or NaN
safe_int_from_series(v, default) == IF v = None THEN default ELSE v[1]

\* lines 39-42: the rows within the optional date bounds
DateFilter(rows, start_date, end_date) ==
    SelectSeq(rows, LAMBDA row :
        /\ (start_date = None \/ row.date >= start_date[1])
        /\ (end_date = None \/ row.date <= end_date[1]))

\* inventory.get(sku, 0)
InvGet(inv, sku) == IF sku \in DOMAIN inv THEN inv[sku] ELSE 0

\* inventory[sku] = v
InvSet(inv, sku, v) ==
    [key \in (DOMAIN inv) \cup {sku} |-> IF key = sku THEN v ELSE inv[key]]

\* line 45: the products of the supplier table
SupplierSkus(suppliers_df) == Sorted(DOMAIN suppliers_df)

\* line 53
InitialInventory(suppliers_df) ==
    [sku \in DOMAIN suppliers_df |-> suppliers_df[sku].current_stock]

\* mutant: an arrival replaces the inventory of its product
RECURSIVE ReceiveReplace(_, _)
ReceiveReplace(inv, arrivals) ==
    IF arrivals = <<>> THEN inv
    ELSE LET o == Head(arrivals)
         IN  ReceiveReplace(InvSet(inv, o.sku, o.qty), Tail(arrivals))

\* lines 69-70: the arrivals are added to the inventory
RECURSIVE Receive(_, _)
Receive(inv, arrivals) ==
    IF arrivals = <<>> THEN inv
    ELSE LET o == Head(arrivals)
         IN  Receive(InvSet(inv, o.sku, InvGet(inv, o.sku) + o.qty), Tail(arrivals))

\* mutant: all the demand is sold, whatever is on hand
SellAllDemand(prev, demand) ==
    [sold |-> demand, stockout |-> 0, inventory_end |-> prev - demand]

\* mutant: one unit is always kept back
SellKeepOne(prev, demand) ==
    LET sold == Max(0, Min(prev - 1, demand))
    IN  [sold |-> sold, stockout |-> demand - sold, inventory_end |-> prev - sold]

\* lines 81-84: the sale of one product on one day
Sell(prev, demand) ==
    LET sold == Min(prev, demand)
    IN  [sold |-> sold, stockout |-> demand - sold, inventory_end |-> prev - sold]

\* lines 78-93: the loop over today's demand rows; the inventory after it and
\* the history rows it appends
RECURSIVE SellAll(_, _)
SellAll(inv, todays) ==
    IF todays = <<>> THEN [inventory |-> inv, history |-> <<>>]
    ELSE LET row == Head(todays)
             s == Sell(InvGet(inv, row.sku), row.qty_sold)
             rest == SellAll(InvSet(inv, row.sku, s.inventory_end), Tail(todays))
         IN  [inventory |-> rest.inventory,
              history |-> <<[date |-> row.date, sku |-> row.sku, demand |-> row.qty_sold,
                             sold |-> s.sold, stockout |-> s.stockout,
                             inventory_end |-> s.inventory_end]>> \o rest.history]

\* mutant: a snapshot row is recorded for every supplier product, with or
\* without a demand row
SnapshotsAll(inv, skus, processed_skus, date) ==
    [i \in DOMAIN skus |->
        [date |-> date, sku |-> skus[i], demand |-> 0, sold |-> 0,
         stockout |-> 0, inventory_end |-> InvGet(inv, skus[i])]]

\* mutant: no snapshot rows are recorded
SnapshotsNone(inv, skus, processed_skus, date) == <<>>

\* lines 96-105: the snapshot rows of the supplier products without a demand
\* row today
Snapshots(inv, skus, processed_skus, date) ==
    LET missing == SelectSeq(skus, LAMBDA sku : sku \notin processed_skus)
    IN  [i \in DOMAIN missing |->
            [date |-> date, sku |-> missing[i], demand |-> 0, sold |-> 0,
             stockout |-> 0, inventory_end |-> InvGet(inv, missing[i])]]

\* mutant: an order is placed whenever a quantity is recommended, whatever
\* the date to reorder by
DecisionIgnoreDeadline(sku, row, inv, sup, date, z, window) ==
    LET lt == sup.lead_time_days
        as_of == DateTime(date, Zero)
        rec == compute_recommendation(
                   [sku |-> sku,
                    avg_daily |-> RowGet(row.roll_mean, window, IntR(row.qty_sold)),
                    sigma |-> RowGet(row.roll_std, window, Surd(Zero)),
                    lead_time_days |-> lt,
                    current_stock |-> IntR(InvGet(inv, sku)),
                    target_stock |-> IntR(sup.target_stock),
                    as_of_date |-> Some(as_of), z |-> z, min_order_qty |-> 1,
                    llm_callable |-> None,
                    pack_size |-> safe_int_from_series(sup.pack_size, 1)],
                   as_of, [kind |-> "not_called", text |-> <<>>]).value
    IN  IF rec.recommended_qty > 0
        THEN <<[sku |-> sku, arrival |-> date + lt, qty |-> rec.recommended_qty]>>
        ELSE <<>>

\* mutant: the rows up to and including the day
HistUntilToday(daily_df, date) == SelectSeq(daily_df, LAMBDA row : row.date <= date)

\* line 108: hist_until_yesterday
HistUntilYesterday(daily_df, date) == SelectSeq(daily_df, LAMBDA row : row.date < date)

\* lines 117-135 for one product: the order placed, as a list of zero or one
\* orders.  row is the product's row of latest.
Decision(sku, row, inv, sup, date, z, window) ==
    LET lt == sup.lead_time_days
        as_of == DateTime(date, Zero)
        rec == compute_recommendation(
                   [sku |-> sku,
                    avg_daily |-> RowGet(row.roll_mean, window, IntR(row.qty_sold)),
                    sigma |-> RowGet(row.roll_std, window, Surd(Zero)),
                    lead_time_days |-> lt,
                    current_stock |-> IntR(InvGet(inv, sku)),
                    target_stock |-> IntR(sup.target_stock),
                    as_of_date |-> Some(as_of), z |-> z, min_order_qty |-> 1,
                    llm_callable |-> None,
                    pack_size |-> safe_int_from_series(sup.pack_size, 1)],
                   as_of, [kind |-> "not_called", text |-> <<>>]).value
    IN  IF /\ rec.recommended_qty > 0
           /\ rec.reorder_by_date # None
           /\ rec.reorder_by_date[1] <= date
        THEN <<[sku |-> sku, arrival |-> date + lt, qty |-> rec.recommended_qty]>>
        ELSE <<>>

\* lines 114-135: the orders placed today, latest being the last feature row of
\* every product with history
RECURSIVE Decisions(_, _, _, _, _, _, _)
Decisions(skus, latest, inv, suppliers_df, date, z, window) ==
    IF skus = <<>> THEN <<>>
    ELSE LET sku == Head(skus)
             rows == SelectSeq(latest, LAMBDA row : row.sku = sku)
             mine == IF rows = <<>> THEN <<>>
                     ELSE Decision(sku, rows[1], inv, suppliers_df[sku], date, z, window)
         IN  mine \o Decisions(Tail(skus), latest, inv, suppliers_df, date, z, window)

\* mutant: stockout_days adds up the unmet units
MetricsUnits(s) ==
    LET total_days == Len(s)
        RECURSIVE Units(_)
        Units(i) == IF i = 0 THEN 0 ELSE s[i].stockout + Units(i - 1)
        RECURSIVE Total(_)
        Total(i) == IF i = 0 THEN 0 ELSE s[i].inventory_end + Total(i - 1)
    IN  [service_level |-> IF total_days > 0
                           THEN Some(RSub(IntR(1), Rat(Units(total_days), total_days)))
                           ELSE None,
         stockout_days |-> Units(total_days),
         total_days |-> total_days,
         avg_inventory |-> IF total_days > 0 THEN Some(Rat(Total(total_days), total_days))
                           ELSE None]

\* lines 143-151: the metrics of one product, s being its history rows
Metrics(s) ==
    LET total_days == Len(s)
        stockout_days == Len(SelectSeq(s, LAMBDA row : row.stockout > 0))
        RECURSIVE Total(_)
        Total(i) == IF i = 0 THEN 0 ELSE s[i].inventory_end + Total(i - 1)
    IN  [service_level |-> IF total_days > 0
                           THEN Some(RSub(IntR(1), Rat(stockout_days, total_days)))
                           ELSE None,
         stockout_days |-> stockout_days,
         total_days |-> total_days,
         avg_inventory |-> IF total_days > 0 THEN Some(Rat(Total(total_days), total_days))
                           ELSE None]

\* lines 138-152: the returned dict
Summary(hist_df, skus) ==
    [summary |-> IF hist_df = <<>> THEN <<>>
                 ELSE [sku \in Range(skus) |->
                          Metrics(SelectSeq(hist_df, LAMBDA row : row.sku = sku))],
     history |-> hist_df]

(***************************************************************************)
(* Bounds of the recommended_qty_up_to_target check.                       *)
(***************************************************************************)
MaxQtyStock == 3      \* stock levels 0, 1/2, 1, ... MaxQtyStock
MaxMinOrder == 3      \* min_order_qty in 0 .. MaxMinOrder
MaxPack == 4          \* pack_size in -1 .. MaxPack

QtyStocks == {Rat(k, 2) : k \in 0..(2 * MaxQtyStock)} \cup {IntR(10), IntR(100)}

\* run_backtest is not running
NoBacktest == cur_date = 0 /\ inventory = <<>> /\ outstanding = <<>> /\ history = <<>>

Idle ==
    /\ env = None
    /\ NoBacktest
    /\ sales = <<>> /\ sku_list = None /\ suppliers = <<>>
    /\ daily = <<>> /\ features = <<>> /\ recs = <<>>

InitQty ==
    /\ pc = "call"
    /\ call \in [fn : {"recommended_qty_up_to_target"},
                 current_stock : QtyStocks, target_stock : QtyStocks,
                 min_order_qty : 0..MaxMinOrder, pack_size : (-1)..MaxPack]
    /\ result = None
    /\ Idle

CallRecommendedQty ==
    /\ pc = "call"
    /\ call.fn = "recommended_qty_up_to_target"
    /\ result' = recommended_qty_up_to_target(call.current_stock, call.target_stock,
                                              call.min_order_qty, call.pack_size)
    /\ pc' = "returned"
    /\ UNCHANGED <<btvars, call, env, sales, sku_list, suppliers, daily, features, recs>>

NextQty == CallRecommendedQty

SpecQty == InitQty /\ [][NextQty]_vars

QtyReturned == pc = "returned" /\ call.fn = "recommended_qty_up_to_target"

\* max(0, target_stock - current_stock) of the returned call
QtyNeed == RMax(Zero, RSub(call.target_stock, call.current_stock))

\* r is the smallest multiple of the rounding unit that is >= need
SmallestMultiple(r, need, pack_size) ==
    LET unit == IF pack_size <= 1 THEN 1 ELSE pack_size
    IN  /\ r \in Nat
        /\ r % unit = 0
        /\ RLe(need, IntR(r))
        /\ RLt(IntR(r - unit), need)

\* C9: with min_order_qty = 1 the result is the smallest multiple of pack_size
\* (of 1 when pack_size <= 1) that is >= max(0, target_stock - current_stock);
\* current = 10, target = 100, pack_size = 4 gives 92.
C9_RoundUpToPack ==
    (QtyReturned /\ call.min_order_qty = 1) =>
        /\ SmallestMultiple(result, QtyNeed, call.pack_size)
        /\ (call.current_stock = IntR(10) /\ call.target_stock = IntR(100)
              /\ call.pack_size = 4) => result = 92

C9_Witness ==
    /\ QtyReturned /\ call.min_order_qty = 1
    /\ call.current_stock = IntR(10) /\ call.target_stock = IntR(100)
    /\ call.pack_size = 4 /\ result = 92

\* C10: the result is 0 whenever current_stock >= target_stock, whatever
\* min_order_qty and pack_size are; min_order_qty is a floor
\* (result = max(min_order_qty, rounded need)) only when the rounded need is
\* positive.
C10_NoForcedMinimum ==
    QtyReturned =>
        /\ RLe(call.target_stock, call.current_stock) => result = 0
        /\ \E r \in 0..(Ceil(QtyNeed) + Max(call.pack_size, 1)) :
              /\ SmallestMultiple(r, QtyNeed, call.pack_size)
              /\ result = IF r = 0 THEN 0 ELSE Max(call.min_order_qty, r)

C10_Witness ==
    /\ QtyReturned
    /\ call.current_stock = IntR(100) /\ call.target_stock = IntR(100)
    /\ call.min_order_qty = 3 /\ call.pack_size = 4 /\ result = 0

(***************************************************************************)
(* compute_recommendation over bounded arguments.                          *)
(***************************************************************************)
MaxLead == 2          \* lead_time_days in 0 .. MaxLead, and 7
MaxText == 2          \* length of the text the capability returns

RecAvgDaily == {Zero, Rat(1, 2), IntR(1), IntR(5)}

RecSigma == {Surd(Zero), Surd(IntR(2)), Surd(IntR(4))}

RecLeadTimes == (0..MaxLead) \cup {7}

RecStocks == {Zero, IntR(1), Rat(5, 2), IntR(10), IntR(40)}

RecTargets == {IntR(4), IntR(100)}

\* (min_order_qty, pack_size)
RecOrdering == {<<1, 1>>, <<3, 4>>}

RecZ == {IntR(1), Rat(33, 20)}

RecAsOf == {None, Some(DateTime(10, Zero)), Some(DateTime(10, Rat(1, 2)))}

Clock == {DateTime(20, Zero), DateTime(20, Rat(3, 4))}

RECURSIVE Texts(_)
Texts(len) ==
    IF len = 0 THEN {<<>>}
    ELSE LET shorter == Texts(len - 1)
         IN  shorter \cup {Append(t, c) : t \in shorter, c \in {" ", "a"}}

Outcomes ==
    [kind : {"raises", "returns_no_text"}, text : {<<>>}]
        \cup [kind : {"returns"}, text : Texts(MaxText)]

InitRec ==
    /\ pc = "call"
    /\ \E o \in RecOrdering :
          call \in [fn : {"compute_recommendation"}, sku : {"TEST"},
                    avg_daily : RecAvgDaily, sigma : RecSigma,
                    lead_time_days : RecLeadTimes, current_stock : RecStocks,
                    target_stock : RecTargets, as_of_date : RecAsOf, z : RecZ,
                    min_order_qty : {o[1]}, llm_callable : {None, Some("callable")},
                    pack_size : {o[2]}]
    /\ result = None
    /\ Idle

\* one call of compute_recommendation; the clock is read only when as_of_date
\* is None, the capability is called only when one is given
CallComputeRecommendation ==
    /\ pc = "call"
    /\ call.fn = "compute_recommendation"
    /\ \E now \in IF call.as_of_date = None THEN Clock ELSE {DateTime(0, Zero)},
          outcome \in IF call.llm_callable = None
                      THEN {[kind |-> "not_called", text |-> <<>>]} ELSE Outcomes :
          LET r == compute_recommendation(call, now, outcome)
          IN  /\ env' = [now |-> now, outcome |-> outcome]
              /\ pc' = IF r.raised THEN "raised" ELSE "returned"
              /\ result' = IF r.raised THEN None ELSE r.value
    /\ UNCHANGED <<btvars, call, sales, sku_list, suppliers, daily, features, recs>>

NextRec == CallComputeRecommendation

SpecRec == InitRec /\ [][NextRec]_vars

RecCalled == call.fn = "compute_recommendation"

RecReturned == pc = "returned" /\ RecCalled

\* the as_of_date the call works with
RecAsOfDay == IF call.as_of_date = None THEN env.now.day ELSE call.as_of_date[1].day

\* current_stock < avg_daily * lead_time_days + z * sigma * sqrt(lead_time_days),
\* decided on the arguments
RecBelowReorderPoint ==
    LET lt == IntR(call.lead_time_days)
        x == RSub(call.current_stock, RMul(call.avg_daily, lt))
        sq == RMul(RMul(RMul(call.z, call.z), call.sigma.sq), lt)
    IN  RLt(x, Zero) \/ RLt(RMul(x, x), sq)

\* C1: for valid arguments recommended_qty is a non-negative integer and
\* confidence lies in [0, 0.99].
C1_QtyAndConfidenceRange ==
    RecReturned =>
        /\ result.recommended_qty \in Nat
        /\ RLe(Zero, result.confidence)
        /\ RLe(result.confidence, Rat(99, 100))

C1_Witness ==
    /\ RecReturned
    /\ result.recommended_qty > 0
    /\ result.confidence = Rat(99, 100)

\* C2: whenever current_stock < reorder_point, reorder_by_date is present and
\* is as_of_date, also for avg_daily = 0.
C2_BelowReorderPointOrdersToday ==
    (RecReturned /\ RecBelowReorderPoint) =>
        result.reorder_by_date = Some(RecAsOfDay)

C2_Witness ==
    /\ RecReturned /\ RecBelowReorderPoint
    /\ call.avg_daily = Zero
    /\ call.as_of_date = None
    /\ result.reorder_by_date = Some(env.now.day)

\* the capability gave no usable text: it is absent, it failed, or its text is
\* empty or all whitespace
NoUsableText ==
    \/ call.llm_callable = None
    \/ env.outcome.kind # "returns"
    \/ \A i \in 1..Len(env.outcome.text) : env.outcome.text[i] = " "

\* C3: the call always returns, with a non-empty rationale; when the
\* capability is absent, raises, or returns an empty or whitespace-only text,
\* the rationale is the template built from the computed quantities.
C3_RationaleFallback ==
    RecCalled =>
        /\ pc # "raised"
        /\ pc = "returned" =>
              /\ Len(result.rationale) > 0
              /\ NoUsableText =>
                    result.rationale = default_rationale_template(result.debug)

C3_Witness ==
    /\ RecReturned
    /\ call.llm_callable # None
    /\ env.outcome.kind = "returns"
    /\ env.outcome.text = <<" ", " ">>
    /\ result.rationale = default_rationale_template(result.debug)

(***************************************************************************)
(* aggregate_daily over bounded sales frames.                              *)
(***************************************************************************)
MaxAggRecs == 3       \* number of sales records

AggDates == {1, 2, 4}

AggRecords == [date : AggDates, sku : {"A", "B"}, qty_sold : {1, 2}]

AggFilters == {None, Some(<<>>), Some(<<"A">>), Some(<<"B", "A">>), Some(<<"A", "C">>)}

InitAgg ==
    /\ pc = "call"
    /\ call = [fn |-> "aggregate_daily"]
    /\ sales \in UNION {[1..n -> AggRecords] : n \in 0..MaxAggRecs}
    /\ sku_list \in AggFilters
    /\ result = None /\ env = None
    /\ suppliers = <<>> /\ daily = <<>> /\ features = <<>> /\ recs = <<>>
    /\ NoBacktest

CallAggregateDaily ==
    /\ pc = "call"
    /\ call.fn = "aggregate_daily"
    /\ LET r == aggregate_daily(sales, sku_list)
       IN  /\ pc' = IF r.raised THEN "raised" ELSE "returned"
           /\ daily' = r.value
    /\ UNCHANGED <<btvars, call, result, env, sales, sku_list, suppliers, features, recs>>

NextAgg == CallAggregateDaily

SpecAgg == InitAgg /\ [][NextAgg]_vars

AggReturned == pc = "returned" /\ call.fn = "aggregate_daily"

\* the products selected: the explicit filter, or all products of the sales
AggSelected ==
    IF sku_list = None THEN {sales[i].sku : i \in DOMAIN sales} ELSE Range(sku_list[1])

AggDays ==
    LET dates == {sales[i].date : i \in DOMAIN sales}
    IN  {d \in 1..4 : (\E x \in dates : x <= d) /\ (\E y \in dates : d <= y)}

\* total quantity of the rows of a frame that satisfy (sku, day in days)
RECURSIVE TotalQty(_, _, _)
TotalQty(rows, sku, days) ==
    IF rows = <<>> THEN 0
    ELSE (IF Head(rows).sku = sku /\ Head(rows).date \in days
          THEN Head(rows).qty_sold ELSE 0) + TotalQty(Tail(rows), sku, days)

\* C8: the grid has exactly one row per selected product and day of
\* [min_date, max_date] and no other row; a row's quantity is the sum of the
\* sales records of that day and product (0 without any), so every product's
\* total is kept.
C8_OneRowPerProductDay ==
    AggReturned =>
        /\ \A k \in AggSelected, d \in AggDays :
              Cardinality({i \in DOMAIN daily : daily[i].sku = k /\ daily[i].date = d}) = 1
        /\ \A i \in DOMAIN daily :
              /\ daily[i].sku \in AggSelected /\ daily[i].date \in AggDays
              /\ daily[i].qty_sold = TotalQty(sales, daily[i].sku, {daily[i].date})
        /\ \A k \in AggSelected : TotalQty(daily, k, AggDays) = TotalQty(sales, k, AggDays)

\* a duplicated (date, product) pair, a day without sales and a product
\* without sales
C8_Witness ==
    /\ AggReturned
    /\ sku_list = Some(<<"A", "C">>)
    /\ sales = << [date |-> 1, sku |-> "A", qty_sold |-> 2],
                  [date |-> 4, sku |-> "B", qty_sold |-> 1],
                  [date |-> 1, sku |-> "A", qty_sold |-> 1] >>
    /\ Len(daily) = 8
    /\ daily[1] = [date |-> 1, sku |-> "A", qty_sold |-> 3]
    /\ daily[2] = [date |-> 2, sku |-> "A", qty_sold |-> 0]

(***************************************************************************)
(* compute_rolling_features over bounded daily grids.                      *)
(***************************************************************************)
MaxFeatDays == 4      \* days of the daily grid

FeatLevels(sku) == IF sku = "A" THEN {0, 1, 4} ELSE {0, 2}

FeatWindows == {<<1, 2>>, <<3>>, <<7, 14, 28>>}

\* the rows of one product whose quantities are series
SeriesRows(sku, series) ==
    [d \in DOMAIN series |-> [date |-> d, sku |-> sku, qty_sold |-> series[d]]]

FeatGrids ==
    UNION {
        {SeriesRows("A", a) : a \in [1..n -> FeatLevels("A")]}
            \cup {SeriesRows("A", a) \o SeriesRows("B", b) :
                    a \in [1..n -> FeatLevels("A")], b \in [1..n -> FeatLevels("B")]}
        : n \in 1..MaxFeatDays}

InitFeat ==
    /\ pc = "call"
    /\ call \in [fn : {"compute_rolling_features"}, windows : FeatWindows]
    /\ daily \in FeatGrids
    /\ result = None /\ env = None
    /\ sales = <<>> /\ sku_list = None /\ suppliers = <<>> /\ features = <<>> /\ recs = <<>>
    /\ NoBacktest

CallComputeRollingFeatures ==
    /\ pc = "call"
    /\ call.fn = "compute_rolling_features"
    /\ features' = compute_rolling_features(daily, call.windows)
    /\ pc' = "returned"
    /\ UNCHANGED <<btvars, call, result, env, sales, sku_list, suppliers, daily, recs>>

NextFeat == CallComputeRollingFeatures

SpecFeat == InitFeat /\ [][NextFeat]_vars

FeatReturned == pc = "returned" /\ call.fn = "compute_rolling_features"

\* the rolling statistics of two feature rows agree
SameRolling(x, y) == x.roll_mean = y.roll_mean /\ x.roll_std = y.roll_std

\* the quantities of product sku sold before day d are all b, and d is not
\* the first day
ConstantBefore(sku, d, b) ==
    /\ \E i \in DOMAIN daily : daily[i].sku = sku /\ daily[i].date < d
    /\ \A i \in DOMAIN daily :
          (daily[i].sku = sku /\ daily[i].date < d) => daily[i].qty_sold = b

\* C7: the rolling statistics at day d depend only on the sales before d:
\* changing the sales of one day changes no feature of that day or of an
\* earlier day; on a series constant before a spike the rolling mean of the
\* spike day is the constant; the first day's statistics are 0.
C7_CausalRollingFeatures ==
    FeatReturned =>
        /\ \A i \in DOMAIN daily : \A v \in FeatLevels(daily[i].sku) :
              LET other == compute_rolling_features(
                               [daily EXCEPT ![i].qty_sold = v], call.windows)
              IN  \A j \in DOMAIN features :
                      (features[j].sku # daily[i].sku \/ features[j].date <= daily[i].date)
                          => SameRolling(features[j], other[j])
        /\ \A j \in DOMAIN features : \A w \in Range(call.windows) :
              /\ features[j].date = 1 =>
                    /\ features[j].roll_mean[w] = Zero
                    /\ features[j].roll_std[w] = Surd(Zero)
              /\ \A b \in FeatLevels(features[j].sku) :
                    ConstantBefore(features[j].sku, features[j].date, b)
                        => features[j].roll_mean[w] = IntR(b)

\* a spike on the fourth day after three days at 1, windows shorter than the
\* history
C7_Witness ==
    /\ FeatReturned
    /\ call.windows = <<1, 2>>
    /\ daily = SeriesRows("A", <<1, 1, 1, 4>>)
    /\ features[4].qty_sold = 4
    /\ features[4].roll_mean[2] = IntR(1)
    /\ features[3].roll_mean[2] = IntR(1)

(***************************************************************************)
(* scripts/run_reorder.py main() over bounded sales histories: product X   *)
(* sells a up to some day and b from then on; product B may have one sale. *)
(* OPENAI_API_KEY is not set, so no text-generation capability is used.    *)
(***************************************************************************)
MaxMainDays == 14     \* days of sales history

MainLevels == {0, 2, 5}

MainSeries ==
    UNION {{[d \in 1..n |-> IF d < k THEN a ELSE b] : a \in MainLevels, b \in MainLevels,
                                                      k \in 1..n}
           : n \in 1..MaxMainDays}

SupplierRow(lt, cur, tgt, pack) ==
    [lead_time_days |-> lt, current_stock |-> cur, target_stock |-> tgt, pack_size |-> pack]

MainSuppliersX ==
    {SupplierRow(7, cur, 100, pack) : cur \in {10, 40}, pack \in {None, Some(4)}}

\* a function with the one-element domain {k}
Only(k, v) == [key \in {k} |-> v]

\* the union of two functions with disjoint domains
Both(f, g) ==
    [key \in (DOMAIN f) \cup (DOMAIN g) |-> IF key \in DOMAIN f THEN f[key] ELSE g[key]]

InitMain ==
    /\ pc = "main"
    /\ call = [fn |-> "main"]
    /\ \E series \in MainSeries, other \in {0, 1} :
          sales = SeriesRows("X", series)
                    \o (IF other = 1 THEN <<[date |-> 1, sku |-> "B", qty_sold |-> 5]>>
                        ELSE <<>>)
    /\ \E forX \in {<<>>} \cup {Only("X", row) : row \in MainSuppliersX},
          forB \in {<<>>, Only("B", SupplierRow(1, 0, 10, Some(1)))} :
          suppliers = Both(forX, forB)
    /\ sku_list = None /\ result = None /\ env = None
    /\ daily = <<>> /\ features = <<>> /\ recs = <<>>
    /\ NoBacktest

\* line 64
MainAggregate ==
    /\ pc = "main"
    /\ LET r == aggregate_daily(sales, None)
       IN  /\ pc' = IF r.raised THEN "raised" ELSE "aggregated"
           /\ daily' = r.value
    /\ UNCHANGED <<btvars, call, result, env, sales, sku_list, suppliers, features, recs>>

\* line 65
MainFeatures ==
    /\ pc = "aggregated"
    /\ features' = compute_rolling_features(daily, <<7, 14, 28>>)
    /\ pc' = "loop"
    /\ UNCHANGED <<btvars, call, result, env, sales, sku_list, suppliers, daily, recs>>

\* datetime.combine(last_date, datetime.min.time())
MainAsOf == DateTime(SetMax({features[i].date : i \in DOMAIN features}), Zero)

\* lines 76-98: one iteration of the loop over latest
MainRecommend ==
    /\ pc = "loop"
    /\ Len(recs) < Len(Latest(features))
    /\ LET row == Latest(features)[Len(recs) + 1]
           r == MainRecommendation(row, suppliers, MainAsOf, None,
                                   [kind |-> "not_called", text |-> <<>>])
       IN  IF r.raised
           THEN pc' = "raised" /\ recs' = recs
           ELSE pc' = "loop" /\ recs' = Append(recs, r.value)
    /\ UNCHANGED <<btvars, call, result, env, sales, sku_list, suppliers, daily, features>>

\* lines 101-105: the recommendations are written and printed
MainWrite ==
    /\ pc = "loop"
    /\ Len(recs) = Len(Latest(features))
    /\ pc' = "done"
    /\ result' = recs
    /\ UNCHANGED <<btvars, call, env, sales, sku_list, suppliers, daily, features, recs>>

NextMain == MainAggregate \/ MainFeatures \/ MainRecommend \/ MainWrite

SpecMain == InitMain /\ [][NextMain]_vars

\* the scenario: 14 days at 5 units a day for the single product X, supplier
\* lead time 7, stock 10, target 100, pack size 1
Scenario14x5 ==
    /\ call.fn = "main"
    /\ sales = SeriesRows("X", [d \in 1..14 |-> 5])
    /\ "X" \in DOMAIN suppliers
    /\ suppliers["X"] = SupplierRow(7, 10, 100, None)

\* C4: in the scenario the pipeline ends with avg_daily = 5, sigma = 0,
\* reorder_point = 35, reorder_by_date = as_of_date (the last day) and
\* recommended_qty = 90.
C4_EndToEndScenario ==
    (Scenario14x5 /\ pc \notin {"main", "aggregated", "loop"}) =>
        /\ pc = "done"
        /\ Len(result) = 1
        /\ result[1].sku = "X"
        /\ result[1].debug.avg_daily = IntR(5)
        /\ result[1].debug.sigma = Surd(Zero)
        /\ result[1].debug.reorder_point = [r |-> IntR(35), sq |-> Zero]
        /\ result[1].debug.as_of_date = 14
        /\ result[1].reorder_by_date = Some(14)
        /\ result[1].recommended_qty = 90

C4_Witness ==
    /\ Scenario14x5 /\ pc = "done"
    /\ result[1].recommended_qty = 90
    /\ result[1].reorder_by_date = Some(14)

(***************************************************************************)
(* run_backtest over bounded sales histories.  Product A sells a quantity  *)
(* from BtLevels on each of MaxBtDays days (a day without sales has no     *)
(* record) and has a supplier row; product B may have a sale, a supplier   *)
(* row, both or neither; a sale of B after the last sale of A extends the  *)
(* simulated range by days on which A has no demand.                       *)
(***************************************************************************)
MaxBtDays == 4        \* days of sales history
MaxBtLead == 2        \* lead_time_days in 0 .. MaxBtLead

BtLevels == {0, 1, 3}

\* the sales records of a series: one record for every day with sales
SalesOf(sku, series) == SelectSeq(SeriesRows(sku, series), LAMBDA row : row.qty_sold > 0)

\* (current_stock, target_stock) of product A
BtStocks == {<<0, 5>>, <<3, 5>>, <<12, 12>>}

BtSuppliersA ==
    {SupplierRow(lt, st[1], st[2], pack) :
        lt \in 0..MaxBtLead, st \in BtStocks, pack \in {None, Some(3)}}

\* the rest of the call: what there is of product B (the day of its sale, if
\* any), the date bounds, the window
BtVariants ==
    {[saleB |-> None, supplierB |-> FALSE, start_date |-> None, end_date |-> None, window |-> 14],
     [saleB |-> Some(2), supplierB |-> FALSE, start_date |-> None, end_date |-> None, window |-> 7],
     [saleB |-> None, supplierB |-> TRUE, start_date |-> None, end_date |-> None, window |-> 28],
     [saleB |-> Some(2), supplierB |-> TRUE, start_date |-> None, end_date |-> None, window |-> 3],
     [saleB |-> None, supplierB |-> FALSE, start_date |-> Some(2), end_date |-> Some(3), window |-> 14],
     [saleB |-> Some(2), supplierB |-> TRUE, start_date |-> Some(MaxBtDays + 1), end_date |-> None, window |-> 14],
     [saleB |-> Some(MaxBtDays + 2), supplierB |-> FALSE, start_date |-> None, end_date |-> None, window |-> 14]}

InitBT ==
    /\ pc = "call"
    /\ \E v \in BtVariants :
          /\ call = [fn |-> "run_backtest", start_date |-> v.start_date,
                     end_date |-> v.end_date, z |-> Rat(165, 100), window |-> v.window]
          /\ \E series \in [1..MaxBtDays -> BtLevels] :
                sales = SalesOf("A", series)
                          \o (IF v.saleB # None
                              THEN <<[date |-> v.saleB[1], sku |-> "B", qty_sold |-> 2]>>
                              ELSE <<>>)
          /\ \E row \in BtSuppliersA :
                suppliers = Both(Only("A", row),
                                 IF v.supplierB THEN Only("B", SupplierRow(1, 1, 4, Some(1)))
                                 ELSE <<>>)
    /\ sku_list = None /\ result = None /\ env = None
    /\ daily = <<>> /\ features = <<>> /\ recs = <<>>
    /\ NoBacktest

\* lines 37-65: the daily grid, the date bounds, the initial inventory
BacktestStart ==
    /\ pc = "call"
    /\ call.fn = "run_backtest"
    /\ LET r == aggregate_daily(sales, None)
           rows == DateFilter(SortByDate(r.value), call.start_date, call.end_date)
       IN  IF r.raised
           THEN pc' = "raised" /\ UNCHANGED <<result, daily, btvars>>
           ELSE IF rows = <<>>
           THEN /\ pc' = "returned"
                /\ daily' = rows
                /\ result' = [summary |-> <<>>, history |-> <<>>]
                /\ UNCHANGED btvars
           ELSE /\ pc' = "receive"
                /\ daily' = rows
                /\ cur_date' = SetMin({rows[i].date : i \in DOMAIN rows})
                /\ inventory' = InitialInventory(suppliers)
                /\ outstanding' = <<>>
                /\ history' = <<>>
                /\ UNCHANGED result
    /\ UNCHANGED <<call, env, sales, sku_list, suppliers, features, recs>>

\* lines 68-72: the orders arriving today are received
BacktestReceive ==
    /\ pc = "receive"
    /\ inventory' = Receive(inventory,
                            SelectSeq(outstanding, LAMBDA o : o.arrival = cur_date))
    /\ outstanding' = SelectSeq(outstanding, LAMBDA o : o.arrival > cur_date)
    /\ pc' = "sell"
    /\ UNCHANGED <<call, result, env, sales, sku_list, suppliers, daily, features, recs,
                   cur_date, history>>

\* lines 75-105: today's sales and snapshot rows
BacktestSell ==
    /\ pc = "sell"
    /\ LET todays == SelectSeq(daily, LAMBDA row : row.date = cur_date)
           sold == SellAll(inventory, todays)
           processed_skus == {todays[i].sku : i \in DOMAIN todays}
       IN  /\ inventory' = sold.inventory
           /\ history' = history \o sold.history
                           \o Snapshots(sold.inventory, SupplierSkus(suppliers),
                                        processed_skus, cur_date)
    /\ pc' = "decide"
    /\ UNCHANGED <<call, result, env, sales, sku_list, suppliers, daily, features, recs,
                   cur_date, outstanding>>

\* lines 108-135 and the step of the loop over all_dates
BacktestDecide ==
    /\ pc = "decide"
    /\ LET hist_until_yesterday == HistUntilYesterday(daily, cur_date)
           computed == compute_rolling_features(hist_until_yesterday, <<7, 14, 28>>)
       IN  IF hist_until_yesterday = <<>>
           THEN UNCHANGED <<features, outstanding>>
           ELSE /\ features' = computed
                /\ outstanding' = outstanding \o
                       Decisions(SupplierSkus(suppliers), Latest(computed), inventory,
                                 suppliers, cur_date, call.z, call.window)
    /\ IF cur_date < SetMax({daily[i].date : i \in DOMAIN daily})
       THEN cur_date' = cur_date + 1 /\ pc' = "receive"
       ELSE cur_date' = cur_date /\ pc' = "summary"
    /\ UNCHANGED <<call, result, env, sales, sku_list, suppliers, daily, recs,
                   inventory, history>>

\* lines 138-152
BacktestSummary ==
    /\ pc = "summary"
    /\ result' = Summary(history, SupplierSkus(suppliers))
    /\ pc' = "returned"
    /\ UNCHANGED <<btvars, call, env, sales, sku_list, suppliers, daily, features, recs>>

NextBT ==
    BacktestStart \/ BacktestReceive \/ BacktestSell \/ BacktestDecide \/ BacktestSummary

SpecBT == InitBT /\ [][NextBT]_vars

BtReturned == pc = "returned" /\ call.fn = "run_backtest"

\* the demand of product sku over the simulated range
RECURSIVE BtDemand(_, _)
BtDemand(rows, sku) ==
    IF rows = <<>> THEN 0
    ELSE (IF Head(rows).sku = sku THEN Head(rows).qty_sold ELSE 0) + BtDemand(Tail(rows), sku)

\* C5: every product of the returned summary has 0 <= stockout_days <=
\* total_days and service_level = 1 - stockout_days / total_days, within [0, 1].
C5_ServiceLevelRange ==
    BtReturned =>
        \A sku \in DOMAIN result.summary :
            LET m == result.summary[sku]
            IN  /\ 0 <= m.stockout_days
                /\ m.stockout_days <= m.total_days
                /\ m.service_level # None
                /\ m.service_level = Some(Rat(m.total_days - m.stockout_days, m.total_days))
                /\ RLe(Zero, m.service_level[1])
                /\ RLe(m.service_level[1], IntR(1))

\* a run under date bounds with stockouts on some days and none on others,
\* and a run where every day is a stockout day
C5_Witness ==
    /\ BtReturned
    /\ "A" \in DOMAIN result.summary
    /\ LET m == result.summary["A"]
       IN  \/ /\ call.start_date # None
              /\ m.total_days = 2 /\ m.stockout_days = 1
              /\ m.service_level = Some(Rat(1, 2))
           \/ /\ call.start_date = None
              /\ m.total_days = MaxBtDays /\ m.stockout_days = MaxBtDays
              /\ m.service_level = Some(Zero)

\* C6: a product whose current_stock and target_stock are at least its total
\* demand over the simulated range has stockout = 0 in every history row, and
\* stockout_days = 0 in the summary.
C6_AmpleStockNeverStocksOut ==
    (call.fn = "run_backtest" /\ pc \notin {"call", "raised"}) =>
        \A sku \in DOMAIN suppliers :
            (/\ suppliers[sku].current_stock >= BtDemand(daily, sku)
             /\ suppliers[sku].target_stock >= BtDemand(daily, sku))
            => /\ \A i \in DOMAIN history : history[i].sku = sku => history[i].stockout = 0
               /\ (pc = "returned" /\ sku \in DOMAIN result.summary)
                     => result.summary[sku].stockout_days = 0

\* all the stock of 12 is sold (3 a day for four days) without a stockout
C6_Witness ==
    /\ BtReturned
    /\ "A" \in DOMAIN result.summary
    /\ suppliers["A"].current_stock = 12
    /\ BtDemand(daily, "A") = 12
    /\ result.summary["A"].stockout_days = 0
    /\ result.summary["A"].total_days = 4
    /\ \E i \in DOMAIN history : history[i].sku = "A" /\ history[i].inventory_end = 0

(***************************************************************************)
(* safety_stock and reorder_point over bounded arguments.                  *)
(***************************************************************************)
MaxSafeLead == 4      \* lead_time_days in -2 .. MaxSafeLead

\* sigma and safety: 0, 1/2, 1, sqrt(2), 2
SafeSigmas == {Surd(Zero), Surd(Rat(1, 4)), Surd(IntR(1)), Surd(IntR(2)), Surd(IntR(4))}

SafeZ == {Zero, IntR(1), Rat(165, 100)}

SafeAvgDaily == {Zero, Rat(1, 2), IntR(3)}

InitSafe ==
    /\ pc = "call"
    /\ call \in [fn : {"safety_stock"}, sigma : SafeSigmas,
                 lead_time_days : (-2)..MaxSafeLead, z : SafeZ]
                \cup [fn : {"reorder_point"}, avg_daily : SafeAvgDaily,
                      safety : SafeSigmas, lead_time_days : (-2)..MaxSafeLead]
    /\ result = None
    /\ Idle

CallSafetyStock ==
    /\ pc = "call"
    /\ call.fn = "safety_stock"
    /\ result' = safety_stock(call.sigma, call.lead_time_days, call.z)
    /\ pc' = "returned"
    /\ UNCHANGED <<btvars, call, env, sales, sku_list, suppliers, daily, features, recs>>

CallReorderPoint ==
    /\ pc = "call"
    /\ call.fn = "reorder_point"
    /\ result' = reorder_point(call.avg_daily, call.safety, call.lead_time_days)
    /\ pc' = "returned"
    /\ UNCHANGED <<btvars, call, env, sales, sku_list, suppliers, daily, features, recs>>

NextSafe == CallSafetyStock \/ CallReorderPoint

SpecSafe == InitSafe /\ [][NextSafe]_vars

SafetyReturned == pc = "returned" /\ call.fn = "safety_stock"

RopReturned == pc = "returned" /\ call.fn = "reorder_point"

\* the root of q is the fraction x
SurdIs(q, x) == RLe(Zero, x) /\ RMul(x, x) = q

\* r + sqrt(sq) is the fraction x
RopIs(rop, x) == SurdIs(rop.sq, RSub(x, rop.r))

\* C11: safety_stock returns exactly 0 for every lead_time_days <= 0, whatever
\* sigma and z are.
C11_NoSafetyStockWithoutLeadTime ==
    (SafetyReturned /\ call.lead_time_days <= 0) => SurdIs(result.sq, Zero)

\* safety_stock(2.0, 0) and a negative lead time
C11_Witness ==
    /\ SafetyReturned
    /\ call.sigma = Surd(IntR(4)) /\ call.z = Rat(165, 100)
    /\ call.lead_time_days = -2
    /\ result = Surd(Zero)

\* C12: for lead_time_days > 0 safety_stock is z * sigma * sqrt(lead_time_days),
\* the non-negative number whose square is z^2 * sigma^2 * lead_time_days, and
\* reorder_point is avg_daily * lead_time_days + safety;
\* safety_stock(1.0, 4, z=1.0) = 2.0 and reorder_point(3.0, 2.0, 4) = 14.0.
C12_SafetyStockAndReorderPoint ==
    /\ (SafetyReturned /\ call.lead_time_days > 0) =>
          /\ result.sq = RMul(RMul(RMul(call.z, call.z), call.sigma.sq),
                              IntR(call.lead_time_days))
          /\ (call.sigma = Surd(IntR(1)) /\ call.lead_time_days = 4 /\ call.z = IntR(1))
                => SurdIs(result.sq, IntR(2))
    /\ RopReturned =>
          /\ result.r = RMul(call.avg_daily, IntR(call.lead_time_days))
          /\ result.sq = call.safety.sq
          /\ (call.avg_daily = IntR(3) /\ call.safety = Surd(IntR(4))
                /\ call.lead_time_days = 4) => RopIs(result, IntR(14))

C12_Witness ==
    /\ RopReturned
    /\ call.avg_daily = IntR(3) /\ call.safety = Surd(IntR(4)) /\ call.lead_time_days = 4
    /\ RopIs(result, IntR(14))

(***************************************************************************)
(* The batch run of scripts/run_reorder.py main() with a product that has  *)
(* sales and no supplier row.                                              *)
(***************************************************************************)
MainEnded == call.fn = "main" /\ pc \in {"done", "raised"}

\* the products of the batch that have a supplier row
MainServable == {features[i].sku : i \in DOMAIN features} \cap DOMAIN suppliers

\* C13: a product whose computation fails (a product with sales and without
\* supplier row) does not abort the batch run: the run ends normally with a
\* recommendation for every other product.
C13_BatchFailureIsolated ==
    (MainEnded /\ MainServable # {}) =>
        /\ pc = "done"
        /\ \A sku \in MainServable : \E i \in DOMAIN result : result[i].sku = sku

\* C14: a product with zero simulated days is absent from the summary: every
\* product of the returned summary has total_days > 0 and a service_level and
\* an avg_inventory that are not None, and when the date bounds leave no day to
\* simulate the summary is empty.
C14_NoMetricsWithoutDays ==
    BtReturned =>
        /\ \A sku \in DOMAIN result.summary :
              /\ result.summary[sku].total_days > 0
              /\ result.summary[sku].service_level # None
              /\ result.summary[sku].avg_inventory # None
        /\ daily = <<>> => DOMAIN result.summary = {}

\* two supplier products and date bounds that leave no day
C14_Witness ==
    /\ BtReturned
    /\ DOMAIN suppliers = {"A", "B"}
    /\ sales # <<>>
    /\ daily = <<>>
    /\ DOMAIN result.summary = {}

\* the units of product sku in the orders
RECURSIVE Pending(_, _)
Pending(orders, sku) ==
    IF orders = <<>> THEN 0
    ELSE (IF Head(orders).sku = sku THEN Head(orders).qty ELSE 0) + Pending(Tail(orders), sku)

\* how many times the order o is in the orders
Count(orders, o) == Cardinality({i \in DOMAIN orders : orders[i] = o})

\* C15: an order leaves the outstanding set only on the day of its
\* arrival_date and only by having its quantity added to the inventory of its
\* product, and no order whose arrival_date lies within the simulated range is
\* left unreceived when the simulation ends; for every lead_time_days >= 0.
C15_OrdersLeaveOnlyByArrival ==
    [][/\ pc = "receive" =>
            /\ \A sku \in DOMAIN suppliers :
                  InvGet(inventory', sku) + Pending(outstanding', sku)
                      = InvGet(inventory, sku) + Pending(outstanding, sku)
            /\ \A i \in DOMAIN outstanding :
                  Count(outstanding', outstanding[i]) < Count(outstanding, outstanding[i])
                      => outstanding[i].arrival = cur_date
       /\ pc = "summary" =>
            \A i \in DOMAIN outstanding : outstanding[i].arrival > cur_date]_vars

\* C16: on every simulated day and for every product with demand, sold =
\* min(inventory after the day's arrivals, demand), the inventory decreases by
\* exactly sold and stockout = demand - sold; so every history row has sold +
\* stockout = demand, sold >= 0, stockout >= 0, inventory_end >= 0, and a
\* positive stockout only with inventory_end = 0.
C16_DemandApplication ==
    /\ [](\A i \in DOMAIN history :
             /\ history[i].sold + history[i].stockout = history[i].demand
             /\ history[i].sold >= 0
             /\ history[i].stockout >= 0
             /\ history[i].inventory_end >= 0
             /\ history[i].stockout > 0 => history[i].inventory_end = 0)
    /\ [][pc = "sell" =>
            /\ \A j \in DOMAIN daily :
                  daily[j].date = cur_date =>
                      \E i \in (Len(history) + 1)..Len(history') :
                          LET row == history'[i]
                              before == InvGet(inventory, row.sku)
                          IN  /\ row.sku = daily[j].sku
                              /\ row.date = cur_date
                              /\ row.demand = daily[j].qty_sold
                              /\ row.sold = Min(before, row.demand)
                              /\ row.stockout = row.demand - row.sold
                              /\ row.inventory_end = before - row.sold
                              /\ InvGet(inventory', row.sku) = before - row.sold]_vars

\* a day on which part of the demand is sold and the rest is a stockout
C16_Witness ==
    /\ call.fn = "run_backtest"
    /\ \E i \in DOMAIN history :
          /\ history[i].demand = 3 /\ history[i].sold = 2 /\ history[i].stockout = 1
          /\ history[i].inventory_end = 0

\* the simulated days: the dates of the daily grid within the date bounds
BtDays == {daily[i].date : i \in DOMAIN daily}

\* the products with history rows: those of the supplier table and of the sales
BtProducts == (DOMAIN suppliers) \cup {daily[i].sku : i \in DOMAIN daily}

\* C17: the returned history has exactly one row per product and simulated
\* calendar day (a snapshot row with demand 0 when the product has no demand
\* that day), the days in ascending order, and every product's total_days is
\* the number of calendar days of the simulated range.
C17_OneRowPerProductDay ==
    (BtReturned /\ daily # <<>>) =>
        /\ \A sku \in BtProducts : \A d \in SetMin(BtDays)..SetMax(BtDays) :
              Cardinality({i \in DOMAIN history :
                              history[i].sku = sku /\ history[i].date = d}) = 1
        /\ \A i \in DOMAIN history :
              /\ history[i].sku \in BtProducts
              /\ history[i].date \in SetMin(BtDays)..SetMax(BtDays)
              /\ \A j \in DOMAIN history : i < j => history[i].date <= history[j].date
        /\ \A sku \in DOMAIN suppliers :
              /\ sku \in DOMAIN result.summary
              /\ result.summary[sku].total_days = SetMax(BtDays) - SetMin(BtDays) + 1

\* product B has a supplier row and no sales: all its rows are snapshots; A
\* has no sales on the second and third of four days
C17_Witness ==
    /\ BtReturned
    /\ DOMAIN suppliers = {"A", "B"}
    /\ \A i \in DOMAIN sales : sales[i].sku = "A" /\ sales[i].date \in {1, 4}
    /\ SetMin(BtDays) = 1 /\ SetMax(BtDays) = 4
    /\ result.summary["B"].total_days = 4
    /\ result.summary["A"].total_days = 4

\* the inventory_end recorded for product sku on day d
BtStockAfter(sku, d) ==
    LET i == CHOOSE k \in DOMAIN history : history[k].sku = sku /\ history[k].date = d
    IN  history[i].inventory_end

\* the engine's answer for product sku on day d with the stock given, from the
\* feature rows rows and the supplier profile of the product
BtEngine(sku, d, stock, rows) ==
    LET mine == SelectSeq(Latest(rows), LAMBDA row : row.sku = sku)
        sup == suppliers[sku]
    IN  compute_recommendation(
            [sku |-> sku,
             avg_daily |-> IF call.window \in {7, 14, 28}
                           THEN mine[1].roll_mean[call.window]
                           ELSE IntR(mine[1].qty_sold),
             sigma |-> IF call.window \in {7, 14, 28}
                       THEN mine[1].roll_std[call.window] ELSE Surd(Zero),
             lead_time_days |-> sup.lead_time_days,
             current_stock |-> IntR(stock),
             target_stock |-> IntR(sup.target_stock),
             as_of_date |-> Some(DateTime(d, Zero)), z |-> call.z, min_order_qty |-> 1,
             llm_callable |-> None,
             pack_size |-> IF sup.pack_size = None THEN 1 ELSE sup.pack_size[1]],
            DateTime(d, Zero), [kind |-> "not_called", text |-> <<>>]).value

\* C18: the decision step of day d adds an order for a product exactly when
\* the step runs for the product (it has history before d), the engine's
\* recommended_qty is > 0 and its reorder_by_date is on or before d; the order
\* carries the recommended quantity and arrival = d + lead_time_days, and the
\* engine is given the inventory left after the day's arrivals and demand and
\* the profile's target_stock, lead_time_days and pack_size.
C18_OrderExactlyWhenDue ==
    [][pc = "decide" =>
        LET new == SubSeq(outstanding', Len(outstanding) + 1, Len(outstanding'))
        IN  /\ Len(outstanding') >= Len(outstanding)
            /\ SubSeq(outstanding', 1, Len(outstanding)) = outstanding
            /\ \A i \in DOMAIN new : new[i].sku \in DOMAIN suppliers
            /\ \A sku \in DOMAIN suppliers :
                  LET runs == \E j \in DOMAIN daily :
                                  daily[j].sku = sku /\ daily[j].date < cur_date
                      rec == BtEngine(sku, cur_date, BtStockAfter(sku, cur_date), features')
                      due == /\ runs
                             /\ rec.recommended_qty > 0
                             /\ rec.reorder_by_date # None
                             /\ rec.reorder_by_date[1] <= cur_date
                      mine == SelectSeq(new, LAMBDA o : o.sku = sku)
                  IN  /\ InvGet(inventory, sku) = BtStockAfter(sku, cur_date)
                      /\ due => mine = <<[sku |-> sku,
                                          arrival |-> cur_date + suppliers[sku].lead_time_days,
                                          qty |-> rec.recommended_qty]>>
                      /\ ~due => mine = <<>>]_vars

\* an order of 6 (target 5 in packs of 3) placed on day 3 with lead time 2
C18_Witness ==
    /\ call.fn = "run_backtest"
    /\ suppliers["A"] = SupplierRow(2, 0, 5, Some(3))
    /\ cur_date = 4 /\ pc = "receive"
    /\ outstanding = <<[sku |-> "A", arrival |-> 5, qty |-> 6]>>

\* C19: the decision of day d uses features computed only from the demand
\* dated strictly before d: changing the demand of day d or of a later day
\* changes no feature row the decision uses, every such row is dated before d,
\* and on a day without earlier history no decision is made (no order is
\* created).
C19_DecisionUsesOnlyEarlierDemand ==
    [][pc = "decide" =>
        IF \A j \in DOMAIN daily : daily[j].date >= cur_date
        THEN outstanding' = outstanding /\ features' = features
        ELSE /\ \A i \in DOMAIN features' : features'[i].date < cur_date
             /\ \A j \in DOMAIN daily : \A v \in BtLevels :
                   daily[j].date >= cur_date =>
                       features' = compute_rolling_features(
                                       HistUntilYesterday([daily EXCEPT ![j].qty_sold = v],
                                                          cur_date),
                                       <<7, 14, 28>>)]_vars

\* the decision of day 2 has been made from the rows of day 1, the demand of
\* day 2 being 3
C19_Witness ==
    /\ call.fn = "run_backtest"
    /\ pc = "receive" /\ cur_date = 3
    /\ features # <<>>
    /\ \A i \in DOMAIN features : features[i].date = 1
    /\ \E j \in DOMAIN daily : daily[j].date = 2 /\ daily[j].qty_sold = 3

(***************************************************************************)
(* The reorder date of compute_recommendation, stated from the arguments   *)
(* of the call.                                                            *)
(***************************************************************************)
\* the fraction of the day elapsed at the as_of_date the call works with
RecAsOfTod == IF call.as_of_date = None THEN env.now.tod ELSE call.as_of_date[1].tod

\* the square of the safety stock of the call
RecSafetySq ==
    IF call.lead_time_days <= 0 THEN Zero
    ELSE RMul(RMul(RMul(call.z, call.z), call.sigma.sq), IntR(call.lead_time_days))

\* current_stock / avg_daily - avg_daily * lead_time_days / avg_daily
\* - lead_time_days, for avg_daily > 0: latest_order_in_days is this number
\* less safety / avg_daily, the cover being at least the reorder point's
RecSlack ==
    RSub(RSub(RDiv(call.current_stock, call.avg_daily), IntR(call.lead_time_days)),
         IntR(call.lead_time_days))

\* latest_order_in_days + y >= 0, for avg_daily > 0
RecLatestAtLeast(y) == ~SurdGt(RecSafetySq, RMul(call.avg_daily, RAdd(RecSlack, y)))

\* latest_order_in_days <= 0, for avg_daily > 0
RecLatestNotPositive == SurdGe(RecSafetySq, RMul(call.avg_daily, RecSlack))

\* C20: when current_stock >= reorder_point: no deadline and reason no_demand
\* if avg_daily <= 0; otherwise, with latest_order_in_days = max(0,
\* current_stock / avg_daily - reorder_point / avg_daily) - lead_time_days, the
\* deadline is as_of_date with reason within_lead_time if latest_order_in_days
\* <= 0, and else the calendar day of as_of_date + latest_order_in_days (the
\* whole days k with k <= time of day + latest_order_in_days < k + 1 are
\* added) with reason scheduled.
C20_ReorderDateProjection ==
    (RecReturned /\ ~RecBelowReorderPoint) =>
        IF RLe(call.avg_daily, Zero)
        THEN /\ result.reorder_by_date = None
             /\ result.debug.reorder_reason = "no_demand"
        ELSE IF RecLatestNotPositive
        THEN /\ result.reorder_by_date = Some(RecAsOfDay)
             /\ result.debug.reorder_reason = "within_lead_time"
        ELSE /\ result.debug.reorder_reason = "scheduled"
             /\ result.reorder_by_date # None
             /\ LET k == result.reorder_by_date[1] - RecAsOfDay
                IN  /\ k >= 0
                    /\ RecLatestAtLeast(RSub(RecAsOfTod, IntR(k)))
                    /\ ~RecLatestAtLeast(RSub(RecAsOfTod, IntR(k + 1)))

\* stock 10, demand 1 a day, lead time 1, sigma sqrt(2), z = 1: the reorder
\* point is 1 + sqrt(2), latest_order_in_days is 9 - sqrt(2) - 1 = 6.58..., and
\* the date is 6 days after as_of_date
C20_Witness ==
    /\ RecReturned
    /\ call.avg_daily = IntR(1) /\ call.sigma = Surd(IntR(2)) /\ call.z = IntR(1)
    /\ call.lead_time_days = 1 /\ call.current_stock = IntR(10)
    /\ call.as_of_date = Some(DateTime(10, Zero))
    /\ result.debug.reorder_reason = "scheduled"
    /\ result.reorder_by_date = Some(16)

(***************************************************************************)
(* The inventory of run_backtest over the whole run, restated from the     *)
(* returned history.                                                       *)
(***************************************************************************)
\* the quantity ordered for product sku by the decision step of day p (0 when
\* no order is placed), recomputed from the daily grid and the inventory_end
\* recorded for the day
BtPlaced(sku, p) ==
    LET runs == \E j \in DOMAIN daily : daily[j].sku = sku /\ daily[j].date < p
        rec == BtEngine(sku, p, BtStockAfter(sku, p),
                        compute_rolling_features(HistUntilYesterday(daily, p), <<7, 14, 28>>))
    IN  IF /\ runs
           /\ rec.recommended_qty > 0
           /\ rec.reorder_by_date # None
           /\ rec.reorder_by_date[1] <= p
        THEN rec.recommended_qty
        ELSE 0

\* the units of product sku received up to and including day d: the orders
\* placed on a day p whose arrival day p + lead_time_days has been simulated
\* after p
BtReceivedBy(sku, d) ==
    LET lt == suppliers[sku].lead_time_days
        RECURSIVE Upto(_)
        Upto(p) == IF p < SetMin(BtDays) THEN 0
                   ELSE (IF lt >= 1 /\ p + lt <= d THEN BtPlaced(sku, p) ELSE 0) + Upto(p - 1)
    IN  Upto(d)

\* the units of product sku sold up to and including day d
BtSoldBy(sku, d) ==
    LET RECURSIVE Upto(_)
        Upto(i) == IF i = 0 THEN 0
                   ELSE (IF history[i].sku = sku /\ history[i].date <= d
                         THEN history[i].sold ELSE 0) + Upto(i - 1)
    IN  Upto(Len(history))

\* C21: in the returned history every row of a supplier product has
\* inventory_end = initial current_stock + the units of its orders received
\* so far - the units sold so far; and during the run the inventory of a
\* supplier product changes only by the arrivals of the day (in the arrivals
\* step) and by the units sold (in the sales step).
C21_InventoryConservation ==
    /\ []((BtReturned /\ daily # <<>>) =>
            \A i \in DOMAIN history :
                history[i].sku \in DOMAIN suppliers =>
                    history[i].inventory_end
                        = suppliers[history[i].sku].current_stock
                          + BtReceivedBy(history[i].sku, history[i].date)
                          - BtSoldBy(history[i].sku, history[i].date))
    /\ [][\A sku \in DOMAIN suppliers :
            /\ pc = "call" /\ pc' = "receive" =>
                  InvGet(inventory', sku) = suppliers[sku].current_stock
            /\ pc = "receive" =>
                  InvGet(inventory', sku)
                      = InvGet(inventory, sku)
                        + Pending(SelectSeq(outstanding, LAMBDA o : o.arrival = cur_date), sku)
            /\ pc = "sell" =>
                  LET rows == SelectSeq(SubSeq(history', Len(history) + 1, Len(history')),
                                        LAMBDA row : row.sku = sku)
                  IN  /\ Len(rows) = 1
                      /\ InvGet(inventory', sku) = InvGet(inventory, sku) - rows[1].sold
                      /\ rows[1].inventory_end = InvGet(inventory', sku)
            /\ pc \in {"decide", "summary"} =>
                  InvGet(inventory', sku) = InvGet(inventory, sku)]_vars

\* stock 3, target 5 in single units, lead time 1, demand 1, 3, 1, 1: the
\* order of 3 placed on day 2 arrives on day 3 and the one of 3 placed on day
\* 3 on day 4 (received 6, sold 5 of a demand of 6)
C21_Witness ==
    /\ BtReturned
    /\ daily # <<>>
    /\ "A" \in DOMAIN suppliers
    /\ suppliers["A"].lead_time_days >= 1
    /\ BtReceivedBy("A", SetMax(BtDays)) > 0
    /\ BtSoldBy("A", SetMax(BtDays)) > 0
    /\ \E i \in DOMAIN history :
          /\ history[i].sku = "A" /\ history[i].date = SetMax(BtDays)
          /\ history[i].inventory_end > 0
          /\ history[i].inventory_end
                 = suppliers["A"].current_stock + BtReceivedBy("A", SetMax(BtDays))
                   - BtSoldBy("A", SetMax(BtDays))

\* target_stock rounded up to a multiple of pack_size
BtTargetRoundedUp(sku) ==
    LET pk == safe_int_from_series(suppliers[sku].pack_size, 1)
    IN  Ceil(Rat(suppliers[sku].target_stock, pk)) * pk

C23_ReorderDateAndReason ==
    RecReturned =>
        /\ result.debug.reorder_reason
               \in {"current_stock_below_reorder_point", "no_demand",
                    "within_lead_time", "scheduled"}
        /\ result.reorder_by_date = None <=> result.debug.reorder_reason = "no_demand"
        /\ result.debug.reorder_reason = "no_demand"
               <=> (RLe(call.avg_daily, Zero) /\ ~RecBelowReorderPoint)
        /\ result.reorder_by_date # None => result.reorder_by_date[1] >= RecAsOfDay

\* no demand and a stock of 10 above the reorder point sqrt(2) (sigma sqrt(2),
\* z = 1, lead time 1): no date, reason no_demand
C23_Witness ==
    /\ RecReturned
    /\ call.avg_daily = Zero /\ call.sigma = Surd(IntR(2)) /\ call.z = IntR(1)
    /\ call.lead_time_days = 1 /\ call.current_stock = IntR(10)
    /\ result.reorder_by_date = None
    /\ result.debug.reorder_reason = "no_demand"

(***************************************************************************)
(* The first days of run_backtest.                                         *)
(***************************************************************************)
\* C24: with window in {7, 14, 28} no order is created for a product of
\* non-negative initial stock on the first two simulated days: the decision
\* step of the first day computes nothing (there is no earlier history), and
\* on the second day every feature row has rolling mean 0 and rolling std 0
\* for the window, so the engine sets no deadline.  The earliest order is the
\* one of the third simulated day.
C24_NoOrderOnFirstTwoDays ==
    [][(pc = "decide" /\ call.window \in {7, 14, 28}) =>
          LET first == SetMin(BtDays)
              new == SubSeq(outstanding', Len(outstanding) + 1, Len(outstanding'))
          IN  /\ cur_date = first =>
                    /\ features' = features
                    /\ outstanding = <<>> /\ outstanding' = <<>>
              /\ cur_date = first + 1 =>
                    /\ features' # <<>>
                    /\ \A i \in DOMAIN features' :
                          /\ features'[i].date = first
                          /\ features'[i].roll_mean[call.window] = Zero
                          /\ features'[i].roll_std[call.window] = Surd(Zero)
                    /\ \A sku \in DOMAIN suppliers :
                          suppliers[sku].current_stock >= 0 =>
                              /\ Pending(outstanding, sku) = 0
                              /\ \A i \in DOMAIN new : new[i].sku # sku
                              /\ (\E i \in DOMAIN features' : features'[i].sku = sku)
                                     => BtEngine(sku, cur_date, InvGet(inventory, sku),
                                                 features').reorder_by_date = None]_vars

\* the default window, no stock and a demand of 3 a day: stockouts on the
\* first three days, and the first order is the one placed on the third day
C24_Witness ==
    /\ call.fn = "run_backtest"
    /\ call.window = 14
    /\ daily # <<>>
    /\ pc = "receive" /\ cur_date = SetMin(BtDays) + 3
    /\ suppliers["A"].current_stock = 0
    /\ \A i \in DOMAIN history : history[i].sku = "A" => history[i].stockout = 3
    /\ Len(outstanding) = 1
    /\ outstanding[1].sku = "A"
    /\ outstanding[1].arrival = SetMin(BtDays) + 2 + suppliers["A"].lead_time_days

====
